---- MODULE Spec2Model ----
(***************************************************************************)
(* Model of limacharlie/SpotCheck.py: the SpotCheck scheduler.             *)
(*                                                                         *)
(* The scheduler runs on gevent: a greenlet runs until it blocks.  A       *)
(* worker's position (pc) names the place it is suspended at, and an       *)
(* action is "the worker resumes and runs on to the next such place".      *)
(* Consecutive blocking calls of one worker that touch nothing shared (the *)
(* sensor queries getInfo/getTags/isOnline, the optional callbacks) are    *)
(* taken in one step; cb_check, the sleeps, the lock and the loop top are  *)
(* the places where a worker is seen suspended.  Taking the lock is a step *)
(* of its own, so that states in which it is held exist.                   *)
(*                                                                         *)
(* Calls are recorded for one sensor, `watched`, which Init draws from all *)
(* sensors: a statement about `watched` is a statement about every sensor. *)
(***************************************************************************)
EXTENDS Integers, Sequences, FiniteSets, TLC

(* ------------------------------ bounds -------------------------------- *)
\* Length of the longest directory listing; sensor identities are 1..MaxListing.
MaxListing == 2
\* Largest n_concurrent tried.
MaxConcurrent == 2
\* Call counters stop counting here (they saturate, so runs stay infinite).
MaxCount == 2

(* ------------------------------ inputs -------------------------------- *)
Sensors == 1 .. MaxListing
Workers == 1 .. MaxConcurrent
\* Value of the worker's local `sensor` while it holds none.
NoSensor == 0
Platforms == {"windows", "linux", "macos"}
TagUniverse == {"t1", "t2"}
\* An attribute of the watched sensor that no query has fetched yet.
UnknownPlat == "?"
UnknownTags == {"?"}
\* tags = None
None == {"None"}

\* Directory listings: sequences of sensors, a sensor may be listed twice.
\* Sensor identities are interchangeable, so a listing names its sensors in
\* the order of first appearance.
RECURSIVE IsCanonical(_)
IsCanonical(l) ==
    IF Len(l) = 0 THEN TRUE
    ELSE LET front == SubSeq(l, 1, Len(l) - 1)
             used == {front[i] : i \in 1 .. Len(front)}
         IN  /\ IsCanonical(front)
             /\ l[Len(l)] \in used \cup {Cardinality(used) + 1}
Listings ==
    {l \in UNION {[1 .. n -> Sensors] : n \in 0 .. MaxListing} : IsCanonical(l)}

\* Filter settings tried: the defaults; one platform only, without and with
\* required tags; one platform flag off.
Filters ==
    { [isWindows |-> TRUE,  isLinux |-> TRUE,  isMacos |-> TRUE,  tags |-> None],
      [isWindows |-> TRUE,  isLinux |-> FALSE, isMacos |-> FALSE, tags |-> None],
      [isWindows |-> FALSE, isLinux |-> TRUE,  isMacos |-> FALSE, tags |-> {"t1", "t2"}],
      [isWindows |-> TRUE,  isLinux |-> TRUE,  isMacos |-> FALSE, tags |-> None] }

\* The command line of this repository supplies all four optional callbacks.
HasOnStartCheck == TRUE
HasOnCheckDone == TRUE
HasOnOffline == TRUE
HasOnError == TRUE

(* ------------------------------- state -------------------------------- *)
VARIABLES
    nConcurrent,         \* constructor argument n_concurrent
    filter,              \* constructor arguments is_windows .. tags
    lcSensors,           \* what self._lc.sensors() yields
    watched,             \* the sensor whose calls are recorded
    plat, sensorTags,    \* what getInfo()['plat'] / getTags() answered for it
    callerPc,            \* where the caller of start/stop/wait is
    enumerated,          \* how many listed sensors start() has put
    stopEvent,           \* self._stopEvent is set
    joined,              \* stop() or wait() without timeout has returned
    waitRet,             \* what the last wait returned
    stopsReturned,       \* calls of stop() that have returned (saturating)
    pc, sensor,          \* per worker: position and local `sensor`
    sensorsLeftToCheck,  \* the queue
    pendingReCheck,
    lock,                \* <<"free",0>>, <<"worker",w>>, <<"timer",s>>
    timers,              \* armed _doReCheck greenlets, per sensor
    finished,            \* occurrences whose last visit ended, per sensor
    anyRetry,            \* some isOnline() or cb_check has answered False
    hist                 \* saturating call counters of the watched sensor

vars == <<nConcurrent, filter, lcSensors, watched, plat, sensorTags, callerPc,
          enumerated, stopEvent, joined, waitRet, stopsReturned, pc, sensor,
          sensorsLeftToCheck, pendingReCheck, lock, timers, finished,
          anyRetry, hist>>

callerVars == <<callerPc, enumerated, stopEvent, joined, waitRet, stopsReturned>>
inputVars == <<nConcurrent, filter, lcSensors, watched>>
attrVars == <<plat, sensorTags>>

Free == <<"free", 0>>

Inc(n) == IF n < MaxCount THEN n + 1 ELSE n

ZeroHist ==
    [nIsOnline |-> 0, nOnOffline |-> 0, nOnStartCheck |-> 0, nCheck |-> 0,
     nOnError |-> 0, nOnCheckDone |-> 0, nFalse |-> 0, nRaise |-> 0,
     nTrue |-> 0, nPut |-> 0, nSpawn |-> 0, nSkipped |-> 0,
     sawOnline |-> FALSE, sawOffline |-> FALSE]

Init ==
    /\ nConcurrent \in 0 .. MaxConcurrent
    /\ filter \in Filters
    /\ lcSensors \in Listings
    /\ watched \in IF Len(lcSensors) = 0 THEN {1}
                  ELSE {lcSensors[i] : i \in 1 .. Len(lcSensors)}
    /\ plat = UnknownPlat
    /\ sensorTags = UnknownTags
    /\ callerPc = "new"
    /\ enumerated = 0
    /\ stopEvent = FALSE
    /\ joined = FALSE
    /\ waitRet = "none"
    /\ stopsReturned = 0
    /\ pc = [w \in Workers |-> "unborn"]
    /\ sensor = [w \in Workers |-> NoSensor]
    /\ sensorsLeftToCheck = << >>
    /\ pendingReCheck = 0
    /\ lock = Free
    /\ timers = [s \in Sensors |-> 0]
    /\ finished = [s \in Sensors |-> 0]
    /\ anyRetry = FALSE
    /\ hist = ZeroHist

(* ------------------------------ helpers ------------------------------- *)
Put(q, s) == Append(q, s)

Bump(f, s) == [f EXCEPT ![s] = @ + 1]

\* Counters move only for the watched sensor.
Record(s, h) == IF s = watched THEN h ELSE hist

\* Every greenlet added to self._threads has finished: the workers spawned
\* by start() and the _doReCheck greenlets added at line 127.
GroupEmpty ==
    /\ \A w \in Workers : pc[w] \in {"unborn", "dead"}
    /\ \A s \in Sensors : timers[s] = 0
    /\ lock[1] # "timer"

\* Line 100: the platform is fetched only if some platform flag is off.
AsksInfo == ~filter.isWindows \/ ~filter.isLinux \/ ~filter.isMacos

\* PlatformSkipped with the linux test reading the windows flag.
PlatformSkippedWrongFlag(p) ==
    \/ p = "windows" /\ ~filter.isWindows
    \/ p = "linux" /\ ~filter.isWindows
    \/ p = "macos" /\ ~filter.isMacos

\* Lines 102-107: the platform answer makes the worker skip the sensor.
PlatformSkipped(p) ==
    \/ p = "windows" /\ ~filter.isWindows
    \/ p = "linux" /\ ~filter.isLinux
    \/ p = "macos" /\ ~filter.isMacos

\* Line 110: the tags are fetched only if tags were set.
AsksTags == filter.tags # None

\* Line 112: all( [ ( x in sensorTags ) for x in self._tags ] )
HasAllTags(ts) == \A x \in filter.tags : x \in ts

\* Lines 100-113: the sensor is skipped by the platform or the tag filter.
Skipped(p, ts) ==
    \/ AsksInfo /\ PlatformSkipped(p)
    \/ AsksTags /\ ~HasAllTags(ts)

\* NothingLeft without the count of pending re-checks.
NothingLeftInQueue == Len(sensorsLeftToCheck) = 0

\* Line 94: the exit test made under the lock.
NothingLeft == pendingReCheck = 0 /\ Len(sensorsLeftToCheck) = 0

\* ResultOnError with the except clause leaving the result false.
ResultOnErrorFalse == FALSE

\* Line 141: the result the except clause substitutes.
ResultOnError == TRUE

\* `continue` / end of the loop body: the visit is over and the sensor is
\* neither put back nor parked.
Drop(w, s) ==
    /\ pc' = [pc EXCEPT ![w] = "top"]
    /\ sensor' = [sensor EXCEPT ![w] = NoSensor]
    /\ finished' = Bump(finished, s)

(* --------------------------- the caller ------------------------------- *)
\* StartPut leaving out a sensor that is already in the queue.
StartPutOncePerSensor ==
    /\ callerPc \in {"new", "start"}
    /\ enumerated < Len(lcSensors)
    /\ sensorsLeftToCheck' =
          IF \E i \in 1 .. Len(sensorsLeftToCheck) :
                sensorsLeftToCheck[i] = lcSensors[enumerated + 1]
          THEN sensorsLeftToCheck
          ELSE Put(sensorsLeftToCheck, lcSensors[enumerated + 1])
    /\ enumerated' = enumerated + 1
    /\ callerPc' = "start"
    /\ UNCHANGED <<inputVars, attrVars, stopsReturned, stopEvent, joined,
                   waitRet, pc, sensor, pendingReCheck, lock, timers, finished,
                   anyRetry, hist>>

\* start(), lines 59-60: one sensor of the listing is put.
StartPut ==
    /\ callerPc \in {"new", "start"}
    /\ enumerated < Len(lcSensors)
    /\ sensorsLeftToCheck' = Put(sensorsLeftToCheck, lcSensors[enumerated + 1])
    /\ enumerated' = enumerated + 1
    /\ callerPc' = "start"
    /\ UNCHANGED <<inputVars, attrVars, stopsReturned, stopEvent, joined, waitRet, pc, sensor,
                   pendingReCheck, lock, timers, finished, anyRetry,
                   hist>>

\* StartSpawn spawning one worker too few.
StartSpawnOneLess ==
    /\ callerPc \in {"new", "start"}
    /\ enumerated = Len(lcSensors)
    /\ pc' = [w \in Workers |-> IF w < nConcurrent THEN "top" ELSE "unborn"]
    /\ callerPc' = "idle"
    /\ UNCHANGED <<inputVars, attrVars, stopsReturned, enumerated, stopEvent, joined, waitRet,
                   sensor, sensorsLeftToCheck, pendingReCheck, lock, timers,
                   finished, anyRetry, hist>>

\* StartSpawn spawning one worker too many.
StartSpawnOneMore ==
    /\ callerPc \in {"new", "start"}
    /\ enumerated = Len(lcSensors)
    /\ pc' = [w \in Workers |-> IF w <= nConcurrent + 1 THEN "top" ELSE "unborn"]
    /\ callerPc' = "idle"
    /\ UNCHANGED <<inputVars, attrVars, stopsReturned, enumerated, stopEvent,
                   joined, waitRet, sensor, sensorsLeftToCheck, pendingReCheck,
                   lock, timers, finished, anyRetry, hist>>

\* start(), lines 63-64: the listing is exhausted, n_concurrent workers are
\* spawned and start() returns.
StartSpawn ==
    /\ callerPc \in {"new", "start"}
    /\ enumerated = Len(lcSensors)
    /\ pc' = [w \in Workers |-> IF w <= nConcurrent THEN "top" ELSE "unborn"]
    /\ callerPc' = "idle"
    /\ UNCHANGED <<inputVars, attrVars, stopsReturned, enumerated, stopEvent, joined, waitRet,
                   sensor, sensorsLeftToCheck, pendingReCheck, lock, timers,
                   finished,
                   anyRetry, hist>>

\* Stop joining without setting the event.
StopWithoutSet ==
    /\ callerPc = "idle"
    /\ callerPc' = "stop"
    /\ waitRet' = "none"
    /\ UNCHANGED <<inputVars, attrVars, stopsReturned, enumerated, stopEvent, joined, pc, sensor,
                   sensorsLeftToCheck, pendingReCheck, lock, timers, finished,
                   anyRetry, hist>>

\* Stop toggling the event instead of setting it.
StopToggles ==
    /\ callerPc = "idle"
    /\ stopEvent' = ~stopEvent
    /\ callerPc' = "stop"
    /\ waitRet' = "none"
    /\ UNCHANGED <<inputVars, attrVars, stopsReturned, enumerated, joined, pc,
                   sensor, sensorsLeftToCheck, pendingReCheck, lock, timers,
                   finished, anyRetry, hist>>

\* stop(), line 71: the event is set, then the caller blocks in join.
Stop ==
    /\ callerPc = "idle"
    /\ stopEvent' = TRUE
    /\ callerPc' = "stop"
    /\ waitRet' = "none"
    /\ UNCHANGED <<inputVars, attrVars, stopsReturned, enumerated, joined, pc, sensor,
                   sensorsLeftToCheck, pendingReCheck, lock, timers, finished,
                   anyRetry, hist>>

\* StopReturn without the join: stop() returns as soon as the event is set.
StopReturnWithoutJoin ==
    /\ callerPc = "stop"
    /\ callerPc' = "idle"
    /\ joined' = TRUE
    /\ stopsReturned' = Inc(stopsReturned)
    /\ UNCHANGED <<inputVars, attrVars, enumerated, stopEvent, waitRet, pc,
                   sensor, sensorsLeftToCheck, pendingReCheck, lock, timers,
                   finished, anyRetry, hist>>

\* stop(), line 72: join returns.
StopReturn ==
    /\ callerPc = "stop"
    /\ GroupEmpty
    /\ callerPc' = "idle"
    /\ joined' = TRUE
    /\ stopsReturned' = Inc(stopsReturned)
    /\ UNCHANGED <<inputVars, attrVars, enumerated, stopEvent, waitRet, pc,
                   sensor, sensorsLeftToCheck, pendingReCheck, lock, timers,
                   finished, anyRetry, hist>>

\* wait( timeout ), line 83: the caller blocks in join, with or without timeout.
Wait ==
    /\ callerPc = "idle"
    /\ \E timeout \in BOOLEAN :
          callerPc' = IF timeout THEN "waitTimeout" ELSE "wait"
    /\ waitRet' = "none"
    /\ UNCHANGED <<inputVars, attrVars, stopsReturned, enumerated, stopEvent, joined, pc, sensor,
                   sensorsLeftToCheck, pendingReCheck, lock, timers, finished,
                   anyRetry, hist>>

\* wait, line 83: the group is empty, join returns True.
WaitReturn ==
    /\ callerPc \in {"wait", "waitTimeout"}
    /\ GroupEmpty
    /\ waitRet' = "True"
    /\ joined' = (joined \/ callerPc = "wait")
    /\ callerPc' = "idle"
    /\ UNCHANGED <<inputVars, attrVars, stopsReturned, enumerated, stopEvent, pc, sensor,
                   sensorsLeftToCheck, pendingReCheck, lock, timers, finished,
                   anyRetry, hist>>

\* wait, line 83: the timeout elapses first, join returns False.
WaitTimeout ==
    /\ callerPc = "waitTimeout"
    /\ ~GroupEmpty
    /\ waitRet' = "False"
    /\ callerPc' = "idle"
    /\ UNCHANGED <<inputVars, attrVars, stopsReturned, enumerated, stopEvent, joined, pc, sensor,
                   sensorsLeftToCheck, pendingReCheck, lock, timers, finished,
                   anyRetry, hist>>

(* --------------------------- the workers ------------------------------ *)
workerRest == <<inputVars, callerVars>>

\* LoopTop polling the stop event only when the queue is empty.
LoopTopPopFirst(w) ==
    /\ pc[w] = "top"
    /\ IF Len(sensorsLeftToCheck) > 0
       THEN /\ sensor' = [sensor EXCEPT ![w] = Head(sensorsLeftToCheck)]
            /\ sensorsLeftToCheck' = Tail(sensorsLeftToCheck)
            /\ pc' = [pc EXCEPT ![w] = "queries"]
            /\ UNCHANGED lock
       ELSE IF stopEvent
       THEN /\ pc' = [pc EXCEPT ![w] = "dead"]
            /\ UNCHANGED <<sensor, sensorsLeftToCheck, lock>>
       ELSE /\ lock = Free
            /\ lock' = <<"worker", w>>
            /\ pc' = [pc EXCEPT ![w] = "exitTest"]
            /\ UNCHANGED <<sensor, sensorsLeftToCheck>>
    /\ UNCHANGED <<workerRest, attrVars, pendingReCheck, timers, finished,
                   anyRetry, hist>>

\* Lines 86-92: the stop event is polled; if clear, get_nowait; on an empty
\* queue the worker takes the lock for the exit test.
LoopTop(w) ==
    /\ pc[w] = "top"
    /\ IF stopEvent
       THEN /\ pc' = [pc EXCEPT ![w] = "dead"]
            /\ UNCHANGED <<sensor, sensorsLeftToCheck, lock>>
       ELSE IF Len(sensorsLeftToCheck) > 0
       THEN /\ sensor' = [sensor EXCEPT ![w] = Head(sensorsLeftToCheck)]
            /\ sensorsLeftToCheck' = Tail(sensorsLeftToCheck)
            /\ pc' = [pc EXCEPT ![w] = "queries"]
            /\ UNCHANGED lock
       ELSE /\ lock = Free
            /\ lock' = <<"worker", w>>
            /\ pc' = [pc EXCEPT ![w] = "exitTest"]
            /\ UNCHANGED <<sensor, sensorsLeftToCheck>>
    /\ UNCHANGED <<workerRest, attrVars, pendingReCheck, timers, finished,
                   anyRetry, hist>>

\* ExitTest with gevent.sleep( 2 ) inside the with block.
ExitTestSleepsLocked(w) ==
    /\ pc[w] = "exitTest"
    /\ lock' = IF NothingLeft THEN Free ELSE lock
    /\ pc' = [pc EXCEPT ![w] = IF NothingLeft THEN "dead" ELSE "top"]
    /\ UNCHANGED <<workerRest, attrVars, sensor, sensorsLeftToCheck,
                   pendingReCheck, timers, finished, anyRetry, hist>>

\* Lines 94-97: under the lock, return if nothing is left; else release,
\* gevent.sleep( 2 ) and continue.
ExitTest(w) ==
    /\ pc[w] = "exitTest"
    /\ lock' = Free
    /\ pc' = [pc EXCEPT ![w] = IF NothingLeft THEN "dead" ELSE "top"]
    /\ UNCHANGED <<workerRest, attrVars, sensor, sensorsLeftToCheck,
                   pendingReCheck, timers, finished, anyRetry, hist>>

\* Lines 103, 105, 107, 113: `continue` of a filtered sensor.
Skip(w, s) ==
    /\ hist' = Record(s, [hist EXCEPT !.nSkipped = Inc(@)])
    /\ Drop(w, s)
    /\ UNCHANGED <<lock, anyRetry>>

\* Lines 116-125: the sensor is offline: onOffline is invoked and the worker
\* takes the lock.
Offline(w, s) ==
    /\ hist' = Record(s, [hist EXCEPT !.nIsOnline = Inc(@),
                                      !.sawOffline = TRUE,
                                      !.nOnOffline =
                                          IF HasOnOffline THEN Inc(@) ELSE @])
    /\ anyRetry' = TRUE
    /\ lock = Free
    /\ lock' = <<"worker", w>>
    /\ pc' = [pc EXCEPT ![w] = "countReCheck"]
    /\ UNCHANGED <<sensor, finished>>

\* Online without the call of onStartCheck.
OnlineWithoutStartCheck(w, s) ==
    /\ hist' = Record(s, [hist EXCEPT !.nIsOnline = Inc(@),
                                      !.sawOnline = TRUE,
                                      !.nCheck = Inc(@)])
    /\ pc' = [pc EXCEPT ![w] = "cbCheck"]
    /\ UNCHANGED <<sensor, finished, lock, anyRetry>>

\* Lines 116, 130-135: the sensor is online: onStartCheck, then cb_check,
\* are invoked.
Online(w, s) ==
    /\ hist' = Record(s, [hist EXCEPT !.nIsOnline = Inc(@),
                                      !.sawOnline = TRUE,
                                      !.nOnStartCheck =
                                          IF HasOnStartCheck THEN Inc(@) ELSE @,
                                      !.nCheck = Inc(@)])
    /\ pc' = [pc EXCEPT ![w] = "cbCheck"]
    /\ UNCHANGED <<sensor, finished, lock, anyRetry>>

\* Lines 100-135: the sensor answers getInfo (if asked), getTags (if asked)
\* and isOnline.  The answers of the watched sensor are remembered and
\* repeated; those of the other sensors are drawn at each visit.
Queries(w) ==
    /\ pc[w] = "queries"
    /\ \E p \in Platforms, ts \in SUBSET TagUniverse, online \in BOOLEAN :
          LET s == sensor[w]
              askedInfo == s = watched /\ AsksInfo
              askedTags == s = watched /\ AsksTags
                           /\ ~(AsksInfo /\ PlatformSkipped(p))
          IN  /\ askedInfo => plat \in {UnknownPlat, p}
              /\ askedTags => sensorTags \in {UnknownTags, ts}
              /\ plat' = IF askedInfo THEN p ELSE plat
              /\ sensorTags' = IF askedTags THEN ts ELSE sensorTags
              /\ IF Skipped(p, ts) THEN Skip(w, s)
                 ELSE IF ~online THEN Offline(w, s)
                 ELSE Online(w, s)
    /\ UNCHANGED <<workerRest, sensorsLeftToCheck, pendingReCheck, timers>>

\* SpawnReCheck without the increment of the count.
SpawnReCheckUncounted(w) ==
    /\ pc[w] = "countReCheck"
    /\ lock' = Free
    /\ timers' = Bump(timers, sensor[w])
    /\ hist' = Record(sensor[w], [hist EXCEPT !.nSpawn = Inc(@)])
    /\ sensor' = [sensor EXCEPT ![w] = NoSensor]
    /\ pc' = [pc EXCEPT ![w] = "top"]
    /\ UNCHANGED <<workerRest, attrVars, sensorsLeftToCheck, pendingReCheck,
                   finished, anyRetry>>

\* Lines 126-128: the re-check is counted, the lock released, _doReCheck
\* spawned for later and added to the group; continue.
SpawnReCheck(w) ==
    /\ pc[w] = "countReCheck"
    /\ pendingReCheck' = pendingReCheck + 1
    /\ lock' = Free
    /\ timers' = Bump(timers, sensor[w])
    /\ hist' = Record(sensor[w], [hist EXCEPT !.nSpawn = Inc(@)])
    /\ sensor' = [sensor EXCEPT ![w] = NoSensor]
    /\ pc' = [pc EXCEPT ![w] = "top"]
    /\ UNCHANGED <<workerRest, attrVars, sensorsLeftToCheck, finished, anyRetry>>

\* Lines 152-153: the check is done, onCheckDone is invoked; next iteration.
CheckDone(w, h) ==
    /\ hist' = Record(sensor[w],
                      [h EXCEPT !.nOnCheckDone =
                                    IF HasOnCheckDone THEN Inc(@) ELSE @])
    /\ Drop(w, sensor[w])

\* CheckAgain without the call of onOffline.
CheckAgainSilent(w, h) ==
    /\ hist' = Record(sensor[w], h)
    /\ pc' = [pc EXCEPT ![w] = "retrySleep"]
    /\ UNCHANGED <<sensor, finished>>

\* Lines 142-147: the result is false: onOffline is invoked and the worker
\* sleeps the retry interval.
CheckAgain(w, h) ==
    /\ hist' = Record(sensor[w],
                      [h EXCEPT !.nOnOffline = IF HasOnOffline THEN Inc(@) ELSE @])
    /\ pc' = [pc EXCEPT ![w] = "retrySleep"]
    /\ UNCHANGED <<sensor, finished>>

\* CheckReturns without the try/except: an error of cb_check ends the worker.
CheckReturnsOrDies(w) ==
    /\ pc[w] = "cbCheck"
    /\ \E outcome \in {"True", "False", "raise"} :
          CASE outcome = "raise" ->
                 /\ hist' = Record(sensor[w], [hist EXCEPT !.nRaise = Inc(@)])
                 /\ pc' = [pc EXCEPT ![w] = "dead"]
                 /\ sensor' = [sensor EXCEPT ![w] = NoSensor]
                 /\ finished' = Bump(finished, sensor[w])
                 /\ UNCHANGED anyRetry
            [] outcome = "False" ->
                 /\ CheckAgain(w, [hist EXCEPT !.nFalse = Inc(@)])
                 /\ anyRetry' = TRUE
            [] outcome = "True" ->
                 /\ CheckDone(w, [hist EXCEPT !.nTrue = Inc(@)])
                 /\ UNCHANGED anyRetry
    /\ UNCHANGED <<workerRest, attrVars, sensorsLeftToCheck, pendingReCheck,
                   lock, timers>>

\* Lines 135-153: cb_check returns True or False, or raises; if it raised,
\* onError is invoked and the result is True.
CheckReturns(w) ==
    /\ pc[w] = "cbCheck"
    /\ \E outcome \in {"True", "False", "raise"} :
          CASE outcome = "raise" ->
                 /\ LET h == [hist EXCEPT !.nRaise = Inc(@),
                                          !.nOnError =
                                              IF HasOnError THEN Inc(@) ELSE @]
                    IN  IF ResultOnError
                        THEN CheckDone(w, h) ELSE CheckAgain(w, h)
                 /\ UNCHANGED anyRetry
            [] outcome = "False" ->
                 /\ CheckAgain(w, [hist EXCEPT !.nFalse = Inc(@)])
                 /\ anyRetry' = TRUE
            [] outcome = "True" ->
                 /\ CheckDone(w, [hist EXCEPT !.nTrue = Inc(@)])
                 /\ UNCHANGED anyRetry
    /\ UNCHANGED <<workerRest, attrVars, sensorsLeftToCheck, pendingReCheck,
                   lock, timers>>

\* RetryPut without the `continue` of line 149: the visit goes on to
\* onCheckDone.
RetryPutFallsThrough(w) ==
    /\ pc[w] = "retrySleep"
    /\ sensorsLeftToCheck' = Put(sensorsLeftToCheck, sensor[w])
    /\ hist' = Record(sensor[w], [hist EXCEPT !.nPut = Inc(@),
                                              !.nOnCheckDone = Inc(@)])
    /\ Drop(w, sensor[w])
    /\ UNCHANGED <<workerRest, attrVars, pendingReCheck, lock, timers, anyRetry>>

\* RetryPut decrementing the count as _doReCheck does.
RetryPutDecrements(w) ==
    /\ pc[w] = "retrySleep"
    /\ sensorsLeftToCheck' = Put(sensorsLeftToCheck, sensor[w])
    /\ pendingReCheck' = pendingReCheck - 1
    /\ hist' = Record(sensor[w], [hist EXCEPT !.nPut = Inc(@)])
    /\ sensor' = [sensor EXCEPT ![w] = NoSensor]
    /\ pc' = [pc EXCEPT ![w] = "top"]
    /\ UNCHANGED <<workerRest, attrVars, lock, timers, finished, anyRetry>>

\* Lines 147-149: the sleep is over, the sensor is put back; continue.
RetryPut(w) ==
    /\ pc[w] = "retrySleep"
    /\ sensorsLeftToCheck' = Put(sensorsLeftToCheck, sensor[w])
    /\ hist' = Record(sensor[w], [hist EXCEPT !.nPut = Inc(@)])
    /\ sensor' = [sensor EXCEPT ![w] = NoSensor]
    /\ pc' = [pc EXCEPT ![w] = "top"]
    /\ UNCHANGED <<workerRest, attrVars, pendingReCheck, lock, timers, finished,
                   anyRetry>>

(* ----------------------- deferred re-checks --------------------------- *)
\* Lines 121-122: the delay of a spawned _doReCheck( s ) is over, it takes
\* the lock.
ReCheckLock(s) ==
    /\ timers[s] > 0
    /\ lock = Free
    /\ lock' = <<"timer", s>>
    /\ timers' = [timers EXCEPT ![s] = @ - 1]
    /\ UNCHANGED <<workerRest, attrVars, pc, sensor, sensorsLeftToCheck,
                   pendingReCheck, finished,
                   anyRetry, hist>>

\* DoReCheck decrementing the count without putting the sensor back.
DoReCheckWithoutPut(s) ==
    /\ lock = <<"timer", s>>
    /\ pendingReCheck' = pendingReCheck - 1
    /\ lock' = Free
    /\ UNCHANGED <<workerRest, attrVars, pc, sensor, sensorsLeftToCheck, timers,
                   finished, anyRetry, hist>>

\* Lines 123-124: under the lock the sensor is put and the count decremented;
\* the greenlet ends.
DoReCheck(s) ==
    /\ lock = <<"timer", s>>
    /\ sensorsLeftToCheck' = Put(sensorsLeftToCheck, s)
    /\ pendingReCheck' = pendingReCheck - 1
    /\ lock' = Free
    /\ UNCHANGED <<workerRest, attrVars, pc, sensor, timers, finished, anyRetry,
                   hist>>

(* --------------------------- specification ---------------------------- *)
Worker(w) ==
    \/ LoopTop(w) \/ ExitTest(w) \/ Queries(w) \/ SpawnReCheck(w)
    \/ CheckReturns(w) \/ RetryPut(w)

ReCheck(s) == ReCheckLock(s) \/ DoReCheck(s)

Caller ==
    \/ StartPut \/ StartSpawn \/ Stop \/ StopReturn
    \/ Wait \/ WaitReturn \/ WaitTimeout

Next ==
    \/ Caller
    \/ \E w \in Workers : Worker(w)
    \/ \E s \in Sensors : ReCheck(s)

Spec == Init /\ [][Next]_vars

\* gevent runs every greenlet that is ready: start() runs to its end, a
\* worker whose blocking call can return goes on, a _doReCheck whose delay is
\* over runs, a join whose group is empty returns, a timeout elapses.  The
\* lock is released before its holder blocks again and the semaphore serves
\* its waiters in turn, so a greenlet that needs the lock is not passed over
\* forever: workers and re-checks are strongly fair.
Fairness ==
    /\ WF_vars(StartPut \/ StartSpawn)
    /\ WF_vars(StopReturn)
    /\ WF_vars(WaitReturn)
    /\ WF_vars(WaitTimeout)
    /\ \A w \in Workers : SF_vars(Worker(w))
    /\ \A s \in Sensors : SF_vars(ReCheck(s))

FairSpec == Init /\ [][Next]_vars /\ Fairness

TypeOK ==
    /\ pendingReCheck \in 0 .. MaxListing
    /\ \A w \in Workers : sensor[w] \in Sensors \cup {NoSensor}

(* ------------------------- where a sensor is -------------------------- *)
Occurrences(s) == Cardinality({i \in 1 .. Len(lcSensors) : lcSensors[i] = s})
Enumerated(s) == Cardinality({i \in 1 .. enumerated : lcSensors[i] = s})
Queued(s) ==
    Cardinality({i \in 1 .. Len(sensorsLeftToCheck) : sensorsLeftToCheck[i] = s})
Held(s) == Cardinality({w \in Workers : sensor[w] = s})
Parked(s) == timers[s] + (IF lock = <<"timer", s>> THEN 1 ELSE 0)
InFlight(s) == Queued(s) + Held(s) + Parked(s) > 0
ListedOnce == Occurrences(watched) = 1
Started == callerPc \notin {"new", "start"}
AllExited == Started /\ \A w \in Workers : pc[w] \in {"unborn", "dead"}

(* ------------------------------- claims ------------------------------- *)

\* C1: a visit of a sensor in which cb_check raised does not end with a call
\* of cb_on_check_done.
C1_NoCheckDoneAfterRaise ==
    [][hist'.nRaise # hist.nRaise
         => hist'.nOnCheckDone = hist.nOnCheckDone]_vars

\* C2: for a sensor listed once whose cb_check raised, onError was invoked
\* exactly once, and from then on the sensor is not in the queue, not held
\* by a worker, not parked in a deferred re-check, and cb_check, put and
\* spawn_later are not invoked for it again.
Raised == ListedOnce /\ hist.nRaise > 0
C2_ErrorNotRetried ==
    /\ [](Raised => /\ hist.nRaise = 1 /\ hist.nOnError = 1
                    /\ ~InFlight(watched))
    /\ [][Raised => /\ hist'.nCheck = hist.nCheck
                    /\ hist'.nOnError = hist.nOnError
                    /\ hist'.nPut = hist.nPut
                    /\ hist'.nSpawn = hist.nSpawn]_vars

C2_Witness ==
    /\ Raised /\ hist.nFalse >= 1 /\ hist.sawOffline
    /\ AllExited /\ ~stopEvent

\* C3: a sensor whose platform is windows, linux or macos with that
\* platform's flag off, or that lacks a required tag, has none of check,
\* onStartCheck, onCheckDone, onOffline invoked, is never asked isOnline,
\* and once popped is neither put back nor parked.
FilteredOut ==
    \/ plat = "windows" /\ ~filter.isWindows
    \/ plat = "linux" /\ ~filter.isLinux
    \/ plat = "macos" /\ ~filter.isMacos
    \/ /\ filter.tags # None /\ sensorTags # UnknownTags
       /\ \E x \in filter.tags : x \notin sensorTags
C3_FilteredNeverChecked ==
    FilteredOut =>
        /\ hist.nCheck = 0 /\ hist.nOnStartCheck = 0 /\ hist.nOnCheckDone = 0
        /\ hist.nOnOffline = 0 /\ hist.nIsOnline = 0
        /\ hist.nPut = 0 /\ hist.nSpawn = 0 /\ Parked(watched) = 0
        /\ \A w \in Workers : sensor[w] = watched => pc[w] = "queries"
        /\ Queued(watched) + Held(watched) + finished[watched]
             = Enumerated(watched)

C3_Witness ==
    /\ plat = "linux" /\ sensorTags = {"t1"} /\ filter.tags = {"t1", "t2"}
    /\ finished[watched] = Occurrences(watched)
    /\ AllExited

\* C4: for a sensor listed once that has always answered online and whose
\* cb_check has returned False K times without raising: onOffline was
\* invoked K times, each followed by a retry sleep of the worker that ends
\* with the put; onCheckDone is not invoked before cb_check returns True,
\* and then exactly once, after which the sensor is nowhere.
OnlineSoFar ==
    /\ ListedOnce /\ ~hist.sawOffline
    /\ hist.nRaise = 0 /\ hist.nFalse < MaxCount
InRetrySleep(s) == \E w \in Workers : pc[w] = "retrySleep" /\ sensor[w] = s
C4_FalseKTimesThenTrue ==
    OnlineSoFar =>
        /\ hist.nOnOffline = hist.nFalse
        /\ hist.nSpawn = 0
        /\ hist.nPut = hist.nFalse - (IF InRetrySleep(watched) THEN 1 ELSE 0)
        /\ hist.nTrue = 0 => hist.nOnCheckDone = 0
        /\ hist.nTrue > 0 =>
              /\ hist.nTrue = 1 /\ hist.nOnCheckDone = 1
              /\ hist.nCheck = hist.nFalse + 1
              /\ ~InFlight(watched)

C4_Witness ==
    /\ OnlineSoFar /\ hist.nFalse = 1 /\ hist.nTrue = 1
    /\ hist.nOnOffline = 1 /\ hist.nOnCheckDone = 1 /\ ~stopEvent

\* C5: for a listed sensor that passes the filters and has answered offline
\* at every query, stop() not being called and with at least one worker:
\* some worker is alive and no wait has returned True; every onOffline is
\* followed by one spawn of a deferred re-check, and the sensor comes back
\* into the queue only by that re-check firing; if this goes on forever,
\* onOffline is invoked, and a re-check fires, infinitely often.
NeverOnline ==
    /\ nConcurrent >= 1 /\ Occurrences(watched) >= 1
    /\ ~stopEvent /\ ~hist.sawOnline /\ hist.nSkipped = 0
OnOfflineJustInvoked ==
    \E w \in Workers : pc[w] = "countReCheck" /\ sensor[w] = watched
C5_AlwaysOfflineRetriedForever ==
    /\ [](NeverOnline /\ Started =>
            /\ \E w \in Workers : pc[w] \notin {"unborn", "dead"}
            /\ waitRet # "True"
            /\ hist.nPut = 0
            /\ ListedOnce => Queued(watched) + Held(watched) + Parked(watched) = 1
            /\ hist.nOnOffline < MaxCount =>
                 hist.nSpawn = hist.nOnOffline
                               - Cardinality({w \in Workers :
                                     pc[w] = "countReCheck" /\ sensor[w] = watched}))
    /\ [][NeverOnline /\ Started /\ Queued(watched)' > Queued(watched)
            => lock = <<"timer", watched>>]_vars
    /\ ([]NeverOnline => /\ []<>OnOfflineJustInvoked
                         /\ []<>(lock = <<"timer", watched>>))

C5_Witness ==
    /\ NeverOnline /\ Started /\ ListedOnce
    /\ hist.nOnOffline = MaxCount /\ hist.nSpawn = MaxCount
    /\ waitRet = "False" /\ Queued(watched) = 1

\* C6: with at least one worker, stop() not called, no isOnline and no
\* cb_check having answered False, and the watched sensor passing the filters
\* with no cb_check raising: every worker eventually exits and a wait()
\* without timeout eventually returns True; when a wait has returned True,
\* onCheckDone has been invoked once per listed occurrence of the sensor.
AllPass ==
    /\ nConcurrent >= 1 /\ ~stopEvent /\ ~anyRetry
    /\ hist.nRaise = 0 /\ hist.nSkipped = 0
C6_AllPassWaitReturnsTrue ==
    /\ [](AllPass /\ waitRet = "True" =>
            /\ AllExited
            /\ hist.nOnCheckDone = Occurrences(watched)
            /\ hist.nCheck = Occurrences(watched)
            /\ hist.nOnOffline = 0)
    /\ ([]AllPass => <>AllExited)
    /\ ([]AllPass => (callerPc = "wait" ~> waitRet = "True"))

C6_Witness ==
    /\ AllPass /\ waitRet = "True" /\ joined
    /\ Len(lcSensors) = MaxListing /\ nConcurrent = MaxConcurrent
    /\ hist.nOnCheckDone = Occurrences(watched)

\* C7: with at least one worker and stop() not called, whenever the last
\* wait returned True every worker has exited, the queue is empty,
\* pendingReCheck is 0, no deferred re-check is armed or firing, no worker
\* holds a sensor, and every listed occurrence ended in a filter skip or in
\* cb_check returning True or raising; a wait returns False only with a
\* timeout and while a worker or a deferred re-check is still there.
C7_WaitTrueIsGenuine ==
    /\ [](nConcurrent >= 1 /\ ~stopEvent /\ waitRet = "True" =>
            /\ AllExited
            /\ Len(sensorsLeftToCheck) = 0
            /\ pendingReCheck = 0
            /\ \A s \in Sensors :
                  /\ Parked(s) = 0 /\ Held(s) = 0
                  /\ finished[s] = Occurrences(s))
    /\ [][waitRet' = "False" /\ waitRet # "False" =>
            /\ callerPc = "waitTimeout"
            /\ \/ \E w \in Workers : pc[w] \notin {"unborn", "dead"}
               \/ \E s \in Sensors : Parked(s) > 0]_vars

C7_Witness ==
    /\ nConcurrent >= 1 /\ ~stopEvent /\ waitRet = "True"
    /\ hist.nSpawn >= 1 /\ hist.nPut >= 1
    /\ Len(lcSensors) = MaxListing

\* C8: once stop(), or wait() without timeout, has returned, every worker has
\* exited and no deferred re-check is armed or firing, and no step changes
\* the queue or pendingReCheck.
C8_NothingRunsAfterJoin ==
    /\ [](joined => /\ AllExited
                    /\ \A s \in Sensors : Parked(s) = 0)
    /\ [][joined => /\ sensorsLeftToCheck' = sensorsLeftToCheck
                    /\ pendingReCheck' = pendingReCheck]_vars

C8_Witness ==
    /\ joined /\ stopEvent /\ callerPc = "idle"
    /\ Len(sensorsLeftToCheck) > 0 /\ hist.nSpawn >= 1

\* C9 (as stated): once the stop event is set, no sensor is put into the
\* queue and no deferred re-check is spawned.
C9_NoPutAfterStop ==
    [][stopEvent => /\ Len(sensorsLeftToCheck') <= Len(sensorsLeftToCheck)
                    /\ \A s \in Sensors : timers'[s] <= timers[s]]_vars

\* C9 (amended): once the stop event is set no worker pops a sensor, so no
\* new visit begins; the queue only grows, and only by a worker ending its
\* retry sleep or by a deferred re-check firing; a deferred re-check is
\* spawned only by a worker whose visit had found the sensor offline.
C9_NoPopAfterStop ==
    [][stopEvent =>
          /\ \A w \in Workers : sensor'[w] \in {sensor[w], NoSensor}
          /\ Len(sensorsLeftToCheck') >= Len(sensorsLeftToCheck)
          /\ Len(sensorsLeftToCheck') > Len(sensorsLeftToCheck) =>
                \/ lock[1] = "timer"
                \/ \E w \in Workers : pc[w] = "retrySleep" /\ pc'[w] = "top"
          /\ \A s \in Sensors : timers'[s] > timers[s] =>
                \E w \in Workers : pc[w] = "countReCheck" /\ sensor[w] = s]_vars

C9_Witness ==
    /\ stopEvent /\ callerPc = "stop"
    /\ \E w \in Workers : pc[w] = "retrySleep"
    /\ \E s \in Sensors : timers[s] > 0

\* C10: a worker that polls the stop event once it is set exits; and, every
\* blocking call in progress returning, a stop() that was called returns,
\* with every worker exited.
C10_StopTerminates ==
    /\ [][\A w \in Workers :
             stopEvent /\ pc[w] = "top" /\ pc'[w] # "top" => pc'[w] = "dead"]_vars
    /\ (callerPc = "stop" ~> (joined /\ callerPc = "idle" /\ AllExited))

C10_Witness ==
    /\ joined /\ stopEvent /\ callerPc = "idle"
    /\ ~hist.sawOnline /\ hist.nOnOffline = MaxCount
    /\ Queued(watched) >= 1

\* C11: once a call of stop() has returned, a further call of stop() leaves
\* the stop event set and changes neither the queue, pendingReCheck, the
\* workers, the deferred re-checks nor any callback count, and it returns.
C11_StopIdempotent ==
    /\ [](stopsReturned >= 1 =>
            /\ stopEvent /\ joined
            /\ \A w \in Workers : pc[w] \in {"unborn", "dead"}
            /\ \A s \in Sensors : Parked(s) = 0)
    /\ [][stopsReturned >= 1 =>
            /\ stopEvent'
            /\ UNCHANGED <<sensorsLeftToCheck, pendingReCheck, pc, sensor,
                           timers, lock, finished, hist>>]_vars
    /\ ((stopsReturned >= 1 /\ callerPc = "stop") ~> (stopsReturned >= 2))

C11_Witness ==
    /\ stopsReturned = 2 /\ callerPc = "idle"
    /\ Len(sensorsLeftToCheck) > 0 /\ pendingReCheck = 0
    /\ hist.nOnOffline >= 1

\* C12: before start() has spawned them no worker exists; from then on
\* exactly n_concurrent workers have been launched and none is launched
\* later; at most n_concurrent calls of cb_check are in progress, and the
\* workers inside cb_check for a sensor are no more than its occurrences
\* in the listing.
Launched == {w \in Workers : pc[w] # "unborn"}
InCheck(s) == {w \in Workers : pc[w] = "cbCheck" /\ sensor[w] = s}
C12_ConcurrencyBounded ==
    /\ [](/\ Cardinality(Launched) = (IF Started THEN nConcurrent ELSE 0)
          /\ Cardinality({w \in Workers : pc[w] = "cbCheck"}) <= nConcurrent
          /\ \A w \in Workers : sensor[w] # NoSensor => w \in Launched
          /\ \A s \in Sensors : Cardinality(InCheck(s)) <= Occurrences(s))
    /\ [][Started => \A w \in Workers : pc[w] = "unborn" => pc'[w] = "unborn"]_vars

C12_Witness ==
    /\ nConcurrent = MaxConcurrent
    /\ \A w \in Workers : pc[w] = "cbCheck"
    /\ Cardinality({sensor[w] : w \in Workers}) = MaxConcurrent

\* C13: while start() runs, the queue is exactly the part of the listing
\* enumerated so far, in order and with repetitions, and no worker exists;
\* when the workers are spawned the whole listing has been put; a sensor
\* listed twice is visited twice: when all workers have exited without
\* stop(), each of its occurrences has ended a visit, and if it passed the
\* filters, was online and cb_check never answered False, it was checked
\* once per occurrence.
C13_StartEnqueuesAllFirst ==
    /\ [](~Started =>
            /\ sensorsLeftToCheck = SubSeq(lcSensors, 1, enumerated)
            /\ \A w \in Workers : pc[w] = "unborn" /\ sensor[w] = NoSensor
            /\ pendingReCheck = 0)
    /\ [](Started => enumerated = Len(lcSensors))
    /\ [][~Started /\ Started' => sensorsLeftToCheck = lcSensors]_vars
    /\ [](AllExited /\ nConcurrent >= 1 /\ ~stopEvent =>
            /\ \A s \in Sensors : finished[s] = Occurrences(s)
            /\ (hist.nSkipped = 0 /\ ~hist.sawOffline /\ hist.nFalse = 0) =>
                   hist.nCheck = Occurrences(watched))

C13_Witness ==
    /\ Occurrences(watched) = 2 /\ hist.nCheck = 2 /\ hist.nOnCheckDone = 2
    /\ hist.nFalse = 0 /\ ~hist.sawOffline
    /\ AllExited /\ ~stopEvent

\* C14: when a worker exits on the exit test, the stop event not being set,
\* no sensor is parked in a deferred re-check and no other worker holds a
\* sensor (in its retry sleep, or in a visit that may still end in a put).
C14_NoExitWhileSensorMayReturn ==
    [][\A w \in Workers :
          (~stopEvent /\ pc[w] = "exitTest" /\ pc'[w] = "dead") =>
              /\ \A s \in Sensors : Parked(s) = 0
              /\ \A v \in Workers \ {w} : sensor[v] = NoSensor]_vars

\* C15: pendingReCheck is never negative and is the number of deferred
\* re-checks spawned and not yet ended; it goes up by one only in the step
\* of a worker that holds the lock and spawns the re-check, and down by one
\* only in the step of a re-check that holds the lock and, in that same
\* step, puts its sensor at the end of the queue; a worker that exits on the
\* exit test leaves no deferred re-check behind.
RECURSIVE ParkedIn(_)
ParkedIn(S) ==
    IF S = {} THEN 0
    ELSE LET s == CHOOSE x \in S : TRUE IN Parked(s) + ParkedIn(S \ {s})
C15_PendingCountsParked ==
    /\ [](pendingReCheck >= 0 /\ pendingReCheck = ParkedIn(Sensors))
    /\ [][pendingReCheck' > pendingReCheck =>
            \E w \in Workers :
               /\ lock = <<"worker", w>> /\ pc[w] = "countReCheck"
               /\ pendingReCheck' = pendingReCheck + 1
               /\ timers'[sensor[w]] = timers[sensor[w]] + 1]_vars
    /\ [][pendingReCheck' < pendingReCheck =>
            /\ lock[1] = "timer" /\ lock' = Free
            /\ pendingReCheck' = pendingReCheck - 1
            /\ sensorsLeftToCheck' = Append(sensorsLeftToCheck, lock[2])]_vars
    /\ [][lock[1] = "timer" /\ lock' # lock =>
            /\ pendingReCheck' = pendingReCheck - 1
            /\ sensorsLeftToCheck' = Append(sensorsLeftToCheck, lock[2])]_vars
    /\ [][\A w \in Workers :
             pc[w] = "exitTest" /\ pc'[w] = "dead" =>
                \A s \in Sensors : Parked(s) = 0]_vars

C15_Witness ==
    /\ pendingReCheck = MaxListing
    /\ lock[1] = "timer"
    /\ \E w \in Workers : pc[w] = "top"
    /\ Len(sensorsLeftToCheck) = 0 /\ ~stopEvent

\* C16: a worker holds the lock exactly while it is between taking it and
\* the exit test, or between taking it and the increment of the count, so
\* never inside a callback, a sensor query or a sleep; a deferred re-check
\* holds it only for its put and decrement; pendingReCheck changes only in a
\* step of the holder, which releases the lock, and a worker that exits
\* otherwise than on the stop event decides so as the holder.
C16_LockNotHeldAcrossCalls ==
    /\ [](/\ \A w \in Workers :
                lock = <<"worker", w>> <=> pc[w] \in {"exitTest", "countReCheck"}
          /\ lock[1] = "worker" => lock[2] \in Workers
          /\ lock[1] = "timer" => lock[2] \in Sensors /\ pendingReCheck >= 1)
    /\ [][pendingReCheck' # pendingReCheck => lock # Free /\ lock' = Free]_vars
    /\ [][\A w \in Workers :
             pc'[w] = "dead" /\ pc[w] # "dead" =>
                \/ pc[w] = "top" /\ stopEvent
                \/ pc[w] = "exitTest" /\ lock = <<"worker", w>>
                   /\ pendingReCheck = 0 /\ Len(sensorsLeftToCheck) = 0]_vars

C16_Witness ==
    /\ \E w \in Workers : lock = <<"worker", w>> /\ pc[w] = "countReCheck"
    /\ \E v \in Workers : pc[v] = "cbCheck"
    /\ hist.nSpawn >= 1

\* C17: cb_check is entered only from the queries of the same visit, with
\* isOnline answered True, and in the step that invokes onStartCheck for the
\* sensor just before it; every visit that asked isOnline ended either in
\* that one call of cb_check or, the sensor being offline, in one call of
\* onOffline without onStartCheck or cb_check.
OfflineJustFound ==
    Cardinality({w \in Workers : pc[w] = "countReCheck" /\ sensor[w] = watched})
C17_CheckOncePerVisitAfterStart ==
    /\ [](/\ hist.nCheck = hist.nOnStartCheck
          /\ ~hist.sawOnline => hist.nCheck = 0
          /\ hist.nIsOnline < MaxCount =>
                hist.nIsOnline = hist.nCheck + hist.nSpawn + OfflineJustFound
          /\ hist.nOnOffline < MaxCount =>
                hist.nOnOffline = hist.nFalse + hist.nSpawn + OfflineJustFound)
    /\ [][\A w \in Workers :
             pc'[w] = "cbCheck" /\ pc[w] # "cbCheck" =>
                /\ pc[w] = "queries" /\ sensor'[w] = sensor[w]
                /\ sensor[w] = watched =>
                      /\ hist'.sawOnline
                      /\ hist.nCheck < MaxCount =>
                            /\ hist'.nCheck = hist.nCheck + 1
                            /\ hist'.nOnStartCheck = hist.nOnStartCheck + 1]_vars
    /\ [][\A w \in Workers :
             pc'[w] = "countReCheck" /\ pc[w] # "countReCheck"
             /\ sensor[w] = watched =>
                /\ pc[w] = "queries" /\ hist'.sawOffline
                /\ hist'.nCheck = hist.nCheck
                /\ hist'.nOnStartCheck = hist.nOnStartCheck
                /\ hist.nOnOffline < MaxCount =>
                      hist'.nOnOffline = hist.nOnOffline + 1]_vars

C17_Witness ==
    /\ ListedOnce /\ hist.nSpawn = 1 /\ hist.nOnOffline = 1
    /\ hist.nCheck = 1 /\ hist.nOnStartCheck = 1
    /\ \E w \in Workers : pc[w] = "cbCheck" /\ sensor[w] = watched

\* C18: a worker that found its sensor offline leaves it to a deferred
\* re-check, counted in pendingReCheck, and is at the top of its loop
\* without a sensor in its next step, and the re-check puts the sensor back
\* without any worker moving; a worker whose cb_check answered False keeps
\* the sensor through its retry sleep, the sensor being neither counted in
\* pendingReCheck nor given to a re-check, pops nothing meanwhile, and ends
\* the sleep by putting that sensor back itself.
C18_TwoRetryPaths ==
    /\ [][\A w \in Workers :
             pc[w] = "countReCheck" /\ pc'[w] # "countReCheck" =>
                /\ pc'[w] = "top" /\ sensor'[w] = NoSensor
                /\ pendingReCheck' = pendingReCheck + 1
                /\ timers' = Bump(timers, sensor[w])
                /\ sensorsLeftToCheck' = sensorsLeftToCheck]_vars
    /\ [][lock[1] = "timer" /\ lock' = Free =>
            /\ pc' = pc /\ sensor' = sensor
            /\ sensorsLeftToCheck' = Append(sensorsLeftToCheck, lock[2])]_vars
    /\ [][\A w \in Workers :
             pc'[w] = "retrySleep" /\ pc[w] # "retrySleep" =>
                /\ pc[w] = "cbCheck" /\ sensor'[w] = sensor[w]
                /\ pendingReCheck' = pendingReCheck /\ timers' = timers
                /\ sensorsLeftToCheck' = sensorsLeftToCheck]_vars
    /\ [][\A w \in Workers :
             pc[w] = "retrySleep" =>
                \/ pc'[w] = "retrySleep" /\ sensor'[w] = sensor[w]
                \/ /\ pc'[w] = "top" /\ sensor'[w] = NoSensor
                   /\ sensorsLeftToCheck' = Append(sensorsLeftToCheck, sensor[w])
                   /\ pendingReCheck' = pendingReCheck /\ timers' = timers]_vars
    /\ [](\A w \in Workers : pc[w] = "retrySleep" => sensor[w] \in Sensors)

C18_Witness ==
    /\ nConcurrent = 1 /\ ~stopEvent
    /\ \E s \in Sensors : /\ timers[s] = 1 /\ pendingReCheck = 1
                          /\ sensor[1] \in Sensors \ {s}
                          /\ pc[1] = "retrySleep"

\* C19: the step in which cb_check raises takes that worker to the top of
\* its loop, and no return of cb_check ends a worker; stop() not being
\* called, once a cb_check has raised every sensor still in the queue is
\* popped by a worker.
C19_ErrorDoesNotEndWorker ==
    /\ [][hist'.nRaise # hist.nRaise =>
            \E w \in Workers : /\ pc[w] = "cbCheck" /\ sensor[w] = watched
                               /\ pc'[w] = "top"]_vars
    /\ [][\A w \in Workers :
             pc[w] = "cbCheck" => pc'[w] \in {"cbCheck", "top", "retrySleep"}]_vars
    /\ \A s \in Sensors :
          []~stopEvent => ((hist.nRaise > 0 /\ Queued(s) > 0) ~> (Held(s) > 0))

C19_Witness ==
    /\ nConcurrent = 1 /\ ~stopEvent /\ hist.nRaise = 1 /\ ListedOnce
    /\ \E s \in Sensors \ {watched} : sensor[1] = s /\ pc[1] = "cbCheck"

\* C20: of the occurrences of a sensor that start() has put, each is in
\* exactly one place: in the queue, held by a worker that is between its pop
\* and the end of that visit, parked in a deferred re-check, or finished;
\* a worker holds a sensor exactly between its pop and the end of the visit.
C20_SensorConservation ==
    /\ \A s \in Sensors :
          Queued(s) + Held(s) + Parked(s) + finished[s] = Enumerated(s)
    /\ \A w \in Workers :
          sensor[w] # NoSensor <=>
             pc[w] \in {"queries", "countReCheck", "cbCheck", "retrySleep"}
    /\ \A s \in Sensors : timers[s] >= 0 /\ finished[s] >= 0

C20_Witness ==
    /\ Occurrences(watched) = 2 /\ hist.nPut >= 1 /\ hist.nSpawn >= 1
    /\ Queued(watched) = 1 /\ Parked(watched) = 1
    /\ \A w \in Workers : pc[w] = "top"

\* C21: stop() not being called, once a worker has exited on the exit test
\* the occurrences still queued, held or parked are no more than the
\* workers still alive, they never grow in number, and none is left when
\* the last worker has exited.
RECURSIVE UnfinishedIn(_)
UnfinishedIn(S) ==
    IF S = {} THEN 0
    ELSE LET s == CHOOSE x \in S : TRUE
         IN  Queued(s) + Held(s) + Parked(s) + UnfinishedIn(S \ {s})
Alive == {w \in Workers : pc[w] \notin {"unborn", "dead"}}
SomeExited == \E w \in Workers : pc[w] = "dead"
C21_UnfinishedAtMostAlive ==
    /\ []((~stopEvent /\ SomeExited) =>
             /\ UnfinishedIn(Sensors) <= Cardinality(Alive)
             /\ Alive = {} => UnfinishedIn(Sensors) = 0)
    /\ [][(~stopEvent /\ SomeExited) =>
             UnfinishedIn(Sensors)' <= UnfinishedIn(Sensors)]_vars
    /\ [][\A w \in Workers :
             (~stopEvent /\ pc[w] = "exitTest" /\ pc'[w] = "dead") =>
                UnfinishedIn(Sensors)' <= Cardinality(Alive')]_vars

C21_Witness ==
    /\ ~stopEvent /\ SomeExited
    /\ \E w \in Workers : pc[w] = "retrySleep"
    /\ UnfinishedIn(Sensors) = 1 /\ Cardinality(Alive) = 1

====
